---- MODULE Spec2Model ----
(***************************************************************************)
(* A model of the PNG decoder of png.js: decode and the methods it calls   *)
(* (decodeIHDR, decodePLTE, decodeIDAT, decodeScanlines, decodeColorType,  *)
(* getChunkIndex, number), the assert helper, and the older copy of        *)
(* decodePLTE kept in the repository.                                      *)
(*                                                                         *)
(* A call is synchronous and keeps no state between calls, so a behaviour  *)
(* is one call: Init draws the method and its argument, the method's       *)
(* action computes what the call returns or throws.                        *)
(*                                                                         *)
(* Bytes are integers 0..255, a Uint8Array is a sequence of bytes, and an  *)
(* index i of the source is position i+1 of the sequence.  A call's        *)
(* outcome is a record [err, value]: err is "" when the call returns and   *)
(* the thrown message otherwise.                                           *)
(*                                                                         *)
(* png.js as committed also holds decodeScanline(line, length), whose body *)
(* declares `let length` again: an early error of the whole module.  The   *)
(* methods are modelled as they are written, each on its own.              *)
(***************************************************************************)
EXTENDS Integers, Sequences, FiniteSets, TLC

VARIABLES op, arg, pc, result, steps, inflateLog

vars == <<op, arg, pc, result, steps, inflateLog>>

----------------------------------------------------------------------------
(* Bounds of the model                                                     *)

\* chunks between IHDR and IEND in a generated stream
MaxChunks == 3
\* chunks after IHDR in the streams whose signature is corrupted
MaxSigChunks == 1
\* declared length of a generated PLTE chunk
MaxPLTELen == 7
\* bytes per row of a generated scanline input
MaxRowBytes == 2
\* width and height of a generated interlaced image
MaxDim == 9

----------------------------------------------------------------------------
(* Values                                                                  *)

Min(a, b) == IF a < b THEN a ELSE b

Throw(e) == [err |-> e, value |-> [kind |-> "none"]]

Return(v) == [err |-> "", value |-> v]

\* the value JavaScript calls undefined
Undefined == [kind |-> "undefined"]

\* bytes[i] of a typed array; a read outside it yields undefined, which
\* equals no byte
At(s, i) == IF i >= 0 /\ i < Len(s) THEN s[i + 1] ELSE 0 - 1

\* TypedArray.prototype.slice(a, b) with 0 <= a: the end is clamped
slice(s, a, b) ==
    LET e == Min(b, Len(s))
    IN  IF a >= e THEN <<>> ELSE SubSeq(s, a + 1, e)

\* new Uint8Array(buffer, off, len) throws a RangeError unless the view fits
ViewOK(buf, off, len) == len >= 0 /\ off + len <= Len(buf)

View(buf, off, len) == SubSeq(buf, off + 1, off + len)

----------------------------------------------------------------------------
(* assert.js                                                               *)

\* assert(val).equal(expect) returns (TRUE) or throws (FALSE)
equal(val, expect) == val = expect

\* assert(val).greater(expect) throws only when val < expect
greater(val, expect) == ~(val < expect)

DefaultMessage == "Expected val to be expect"

----------------------------------------------------------------------------
(* png.js: tables                                                          *)

CHUNK_TYPE ==
    [PLTE |-> [name |-> "Palette",       code |-> <<80, 76, 84, 69>>],
     IHDR |-> [name |-> "Header",        code |-> <<73, 72, 68, 82>>],
     IDAT |-> [name |-> "Image Data",    code |-> <<73, 68, 65, 84>>],
     IEND |-> [name |-> "Image Trailer", code |-> <<73, 69, 78, 68>>]]

COLOR_TYPE ==
    << [key |-> "GRAYSCALE", name |-> "Grayscale", code |-> 0,
        channels |-> 1, allowed_bit_depths |-> <<1, 2, 4, 8, 16>>],
       [key |-> "RGB", name |-> "RGB", code |-> 2,
        channels |-> 3, allowed_bit_depths |-> <<8, 16>>],
       [key |-> "PALETTE", name |-> "Palette", code |-> 3,
        channels |-> 1, allowed_bit_depths |-> <<1, 2, 4, 8>>],
       [key |-> "ALPHA_GRAYSCALE", name |-> "Grayscale with alpha channel",
        code |-> 4, channels |-> 2, allowed_bit_depths |-> <<8, 16>>],
       [key |-> "ALPHA_RGB", name |-> "Grayscale with alpha channel",
        code |-> 6, channels |-> 4, allowed_bit_depths |-> <<8, 16>>] >>

\* Array.prototype.includes
includes(s, v) == \E i \in 1..Len(s) : s[i] = v

----------------------------------------------------------------------------
(* png.js: number                                                          *)

\* b << exp on a byte b: the shift count is taken mod 32 and the result is
\* a signed 32-bit integer
shl(b, exp) ==
    LET e == exp % 32
        k == 32 - e
        m == b % (2 ^ k)
    IN  IF e <= 23 THEN b * (2 ^ e)
        ELSE IF m >= 2 ^ (k - 1) THEN (m - 2 ^ k) * (2 ^ e)
        ELSE m * (2 ^ e)

RECURSIVE numberFrom(_, _, _)
numberFrom(bytes, i, acc) ==
    IF i >= Len(bytes) THEN acc
    ELSE numberFrom(bytes, i + 1,
                    acc + shl(bytes[i + 1], (Len(bytes) - (i + 1)) * 8))

number(bytes) == numberFrom(bytes, 0, 0)

----------------------------------------------------------------------------
(* png.js: decodeColorType                                                 *)

decodeColorType(code) ==
    IF \E k \in 1..Len(COLOR_TYPE) : COLOR_TYPE[k].code = code
    THEN Return(COLOR_TYPE[CHOOSE k \in 1..Len(COLOR_TYPE) :
                               COLOR_TYPE[k].code = code])
    ELSE Throw("Unsupported Color type")

----------------------------------------------------------------------------
(* png.js: decodeIHDR                                                      *)

\* the four asserts on chunk[4..7] against a chunk type code
TypeIs(chunk, code) ==
    /\ equal(At(chunk, 4), code[1])
    /\ equal(At(chunk, 5), code[2])
    /\ equal(At(chunk, 6), code[3])
    /\ equal(At(chunk, 7), code[4])

\* The argument of .message(...) on line 149 is a template literal that
\* reads colorType, a name declared nowhere (the local is decode.colorType):
\* evaluating it throws a ReferenceError before .equal(true) is reached,
\* whatever validDepth is.
message149(decoded) == Throw("ReferenceError: colorType is not defined")

decodeIHDR(chunk) ==
    LET length == number(slice(chunk, 0, 4))
    IN  IF ~equal(length, 13) THEN Throw(DefaultMessage)
        ELSE IF ~TypeIs(chunk, CHUNK_TYPE.IHDR.code)
        THEN Throw("Expected IHDR header")
        ELSE
          LET width     == number(slice(chunk, 8, 12))
              height    == number(slice(chunk, 12, 16))
              depth     == number(slice(chunk, 16, 17))
              colorCode == number(slice(chunk, 17, 18))
              colorType == decodeColorType(colorCode)
          IN  IF colorType.err # "" THEN Throw(colorType.err)
              ELSE
                LET validDepth ==
                        includes(colorType.value.allowed_bit_depths, depth)
                    decoded == [kind |-> "header", width |-> width,
                                height |-> height, depth |-> depth,
                                colorType |-> colorType.value]
                    msg == message149(decoded)
                IN  IF msg.err # "" THEN Throw(msg.err)
                    ELSE IF ~equal(validDepth, TRUE) THEN Throw("Invalid bit depth")
                    ELSE Return(
                           [kind |-> "header", width |-> width,
                            height |-> height, depth |-> depth,
                            colorType |-> colorType.value,
                            compression |-> number(slice(chunk, 18, 19)),
                            filter |-> number(slice(chunk, 19, 20)),
                            interlace |-> number(slice(chunk, 20, 21))])

----------------------------------------------------------------------------
(* png.js: decodePLTE, and the older copy of it                            *)

\* lines 172-183: one entry per started group of three bytes of
\* chunk.slice(8, chunk.length)
RECURSIVE plteEntries(_, _)
plteEntries(data, i) ==
    IF i >= Len(data) THEN <<>>
    ELSE <<slice(data, i, i + 3)>> \o plteEntries(data, i + 3)

decodePLTE(chunk) ==
    LET length == number(slice(chunk, 0, 4))
    IN  IF ~equal(length % 3, 0)
        THEN Throw("Malformed PLTE chunk, the length is not divisble by 3")
        ELSE IF ~TypeIs(chunk, CHUNK_TYPE.PLTE.code)
        THEN Throw("Expected PLTE header")
        ELSE Return([kind |-> "palette",
                     entries |-> plteEntries(slice(chunk, 8, Len(chunk)), 0)])

\* the older copy: steps + 1 entries, entry i read at data[i], data[2i],
\* data[3i] (undefined past the end)
decodePLTE_part000(chunk) ==
    LET length == number(slice(chunk, 0, 4))
        steps_ == length \div 3
        data   == slice(chunk, 8, Len(chunk))
    IN  IF ~equal(length % 3, 0)
        THEN Throw("Malformed PLTE chunk, the length is not divisble by 3")
        ELSE IF ~TypeIs(chunk, CHUNK_TYPE.PLTE.code)
        THEN Throw("Expected PLTE header")
        ELSE Return([kind |-> "palette",
                     entries |-> [i \in 1..(steps_ + 1) |->
                                    << At(data, 1 * (i - 1)),
                                       At(data, 2 * (i - 1)),
                                       At(data, 3 * (i - 1)) >>]])

----------------------------------------------------------------------------
(* The decompression backend (pako.inflate), an external library: a        *)
(* function from a compressed byte sequence to bytes or a failure.  It is  *)
(* modelled by a length-prefixed code: a stream is one count byte n and    *)
(* then n bytes, which it yields; anything else is a failure.  A stream    *)
(* cut in two is then two invalid streams, as with DEFLATE.                *)

inflate(payload) ==
    IF Len(payload) >= 1 /\ payload[1] = Len(payload) - 1
    THEN Return([kind |-> "bytes", bytes |-> Tail(payload)])
    ELSE Throw("inflate: corrupt stream")

----------------------------------------------------------------------------
(* png.js: decodeIDAT.  The outcome also lists what was handed to inflate. *)

decodeIDAT(chunk) ==
    LET length == number(slice(chunk, 0, 4))
    IN  IF ~TypeIs(chunk, CHUNK_TYPE.IDAT.code)
        THEN [err |-> "Expected IDAT header", value |-> [kind |-> "none"],
              inflated |-> <<>>]
        ELSE
          LET payload == slice(chunk, 8, length + 8)
              decoded == inflate(payload)
          IN  IF decoded.err # ""
              THEN [err |-> decoded.err, value |-> [kind |-> "none"],
                    inflated |-> <<payload>>]
              ELSE IF decoded.value = Undefined
              THEN [err |-> "Could not inflate IDAT payload",
                    value |-> [kind |-> "none"], inflated |-> <<payload>>]
              ELSE [err |-> "", value |-> decoded.value,
                    inflated |-> <<payload>>]

----------------------------------------------------------------------------
(* png.js: decodeScanlines                                                 *)

\* the body computes packLength and length and ends: the call returns
\* undefined for every raw and IHDR
decodeScanlines(raw, IHDR) ==
    LET packLength == IHDR.colorType.channels * IHDR.depth
        length     == IHDR.width * packLength
    IN  Return(Undefined)

\* decodeScanline(line, length): the body reads IHDR, which is no parameter
\* and no variable of the module, in its first statement (and its
\* `let length` is the early error named at the top): no call returns
decodeScanline(line, length) == Throw("ReferenceError: IHDR is not defined")

----------------------------------------------------------------------------
(* png.js: getChunkIndex                                                   *)

\* the loop from index i on: every position where the four bytes of the
\* type code are read is recorded, four bytes earlier
RECURSIVE scanFrom(_, _, _, _)
scanFrom(data, type, i, findings) ==
    IF i >= Len(data) THEN Return([kind |-> "indices", indices |-> findings])
    ELSE IF /\ At(data, i) = type[1]
            /\ At(data, i + 1) = type[2]
            /\ At(data, i + 2) = type[3]
            /\ At(data, i + 3) = type[4]
    THEN IF ~greater(i - 4, 0)
         THEN Throw("Malformed chunk layout, found chunk type without length byte")
         ELSE scanFrom(data, type, i + 1, Append(findings, i - 4))
    ELSE scanFrom(data, type, i + 1, findings)

getChunkIndex(buffer, chunkType) == scanFrom(buffer, chunkType.code, 0, <<>>)

----------------------------------------------------------------------------
(* png.js: decode                                                          *)

SIGNATURE == <<137, 80, 78, 71, 13, 10, 26, 10>>

\* signatureOK with the assert on header[7] left out
signatureOK_sevenBytes(header) ==
    \A i \in 1..7 : equal(header[i], SIGNATURE[i])

\* lines 79-86: the eight asserts on header[0..7]
signatureOK(header) == \A i \in 1..8 : equal(header[i], SIGNATURE[i])

\* an Array of Uint8Arrays joined: the comma-separated fields of the string,
\* one per byte, and one empty field for an empty array
RECURSIVE join(_)
join(arrays) ==
    IF arrays = <<>> THEN <<>>
    ELSE (IF Head(arrays) = <<>> THEN << <<>> >>
          ELSE [i \in 1..Len(Head(arrays)) |-> <<Head(arrays)[i]>>])
         \o join(Tail(arrays))

\* lines 93-98
plteStage(buffer) ==
    LET plteIndices == getChunkIndex(buffer, CHUNK_TYPE.PLTE)
    IN  IF plteIndices.err # "" THEN Throw(plteIndices.err)
        ELSE
          LET ix == plteIndices.value.indices
          IN  IF Len(ix) > 1
              THEN Throw("Found multiple PLTE chunks, which is not supported")
              ELSE IF Len(ix) > 0
              THEN IF ~ViewOK(buffer, ix[1], 4) THEN Throw("RangeError")
                   ELSE
                     LET plteLength == number(View(buffer, ix[1], 4))
                     IN  IF ~ViewOK(buffer, ix[1], plteLength + 8)
                         THEN Throw("RangeError")
                         ELSE decodePLTE(View(buffer, ix[1], plteLength + 8))
              ELSE Return(Undefined)

\* lines 105-108: the forEach over dataIndices from position k on
RECURSIVE idatEach(_, _, _, _, _)
idatEach(buffer, dataIndices, k, rawData, log) ==
    IF k > Len(dataIndices)
    THEN [err |-> "", value |-> rawData, inflated |-> log]
    ELSE IF ~ViewOK(buffer, dataIndices[k], 4)
    THEN [err |-> "RangeError", value |-> rawData, inflated |-> log]
    ELSE
      LET length == number(View(buffer, dataIndices[k], 4))
      IN  IF ~ViewOK(buffer, dataIndices[k], length + 8)
          THEN [err |-> "RangeError", value |-> rawData, inflated |-> log]
          ELSE
            LET d == decodeIDAT(View(buffer, dataIndices[k], length + 8))
            IN  IF d.err # ""
                THEN [err |-> d.err, value |-> rawData,
                      inflated |-> log \o d.inflated]
                ELSE idatEach(buffer, dataIndices, k + 1,
                              Append(rawData, d.value.bytes),
                              log \o d.inflated)

\* lines 101-110
idatStage(buffer) ==
    LET dataIndices == getChunkIndex(buffer, CHUNK_TYPE.IDAT)
    IN  IF dataIndices.err # ""
        THEN [err |-> dataIndices.err, value |-> <<>>, inflated |-> <<>>]
        ELSE IF Len(dataIndices.value.indices) = 0
        THEN [err |-> "No IDAT chunk found", value |-> <<>>, inflated |-> <<>>]
        ELSE
          LET each == idatEach(buffer, dataIndices.value.indices, 1, <<>>, <<>>)
          IN  IF each.err # "" THEN each
              ELSE [err |-> "",
                    value |-> [kind |-> "string", fields |-> join(each.value)],
                    inflated |-> each.inflated]

\* a decode that throws e after entering the stages st
Abort(st, e, log) ==
    [err |-> e, value |-> [kind |-> "none"], steps |-> st, inflated |-> log]

decode(buffer) ==
    IF ~ViewOK(buffer, 0, 8) THEN Abort(<<"signature">>, "RangeError", <<>>)
    ELSE IF ~signatureOK(View(buffer, 0, 8))
    THEN Abort(<<"signature">>, DefaultMessage, <<>>)
    ELSE IF ~ViewOK(buffer, 8, 21)
    THEN Abort(<<"signature", "IHDR">>, "RangeError", <<>>)
    ELSE
      LET IHDR == decodeIHDR(View(buffer, 8, 21))
      IN  IF IHDR.err # ""
          THEN Abort(<<"signature", "IHDR">>, IHDR.err, <<>>)
          ELSE
            LET PLTE == plteStage(buffer)
            IN  IF PLTE.err # ""
                THEN Abort(<<"signature", "IHDR", "PLTE">>, PLTE.err, <<>>)
                ELSE
                  LET rawData == idatStage(buffer)
                  IN  IF rawData.err # ""
                      THEN Abort(<<"signature", "IHDR", "PLTE", "IDAT">>,
                                 rawData.err, rawData.inflated)
                      ELSE
                        LET referenceImage ==
                                decodeScanlines(rawData.value, IHDR.value)
                        IN  [err |-> referenceImage.err,
                             value |-> [kind |-> "img",
                                        IHDR |-> IHDR.value,
                                        PLTE |-> PLTE.value,
                                        rawData |-> rawData.value,
                                        referenceImage |->
                                            referenceImage.value],
                             steps |-> <<"signature", "IHDR", "PLTE", "IDAT",
                                         "scanlines">>,
                             inflated |-> rawData.inflated]

----------------------------------------------------------------------------
(* The arguments the calls are made with: PNG streams assembled from a     *)
(* list of chunks, so that the true chunk boundaries are known.            *)

\* a length below 2^24 as four bytes, most significant first
U32(n) == << 0, (n \div 65536) % 256, (n \div 256) % 256, n % 256 >>

\* the CRC is never read by the decoder
CRC == <<0, 0, 0, 0>>

Chunk(type, payload) == U32(Len(payload)) \o type \o payload \o CRC

\* an ancillary chunk type (tEXt)
CodeAncillary == <<116, 69, 88, 116>>

ChunkKinds ==
    { [type |-> CHUNK_TYPE.PLTE.code, payload |-> <<10, 11, 12>>],
      [type |-> CHUNK_TYPE.IDAT.code, payload |-> <<2, 7>>],
      [type |-> CHUNK_TYPE.IDAT.code, payload |-> <<9>>],
      [type |-> CHUNK_TYPE.IDAT.code, payload |-> <<1, 5>>],
      [type |-> CodeAncillary,        payload |-> CHUNK_TYPE.IDAT.code],
      [type |-> CodeAncillary,        payload |-> CHUNK_TYPE.PLTE.code] }

LayoutsUpTo(n) == UNION { [1..k -> ChunkKinds] : k \in 0..n }

Layouts == LayoutsUpTo(MaxChunks)

IHDRChunk(f) ==
    U32(f.declared) \o f.type \o U32(f.width) \o U32(f.height)
    \o << f.depth, f.color, f.compression, f.filter, f.interlace >> \o CRC

Fields(w, h, d, c, cm, fl, il) ==
    [declared |-> 13, type |-> CHUNK_TYPE.IHDR.code, width |-> w,
     height |-> h, depth |-> d, color |-> c, compression |-> cm,
     filter |-> fl, interlace |-> il]

RECURSIVE ChunkBytes(_)
ChunkBytes(layout) ==
    IF layout = <<>> THEN <<>>
    ELSE Chunk(Head(layout).type, Head(layout).payload)
         \o ChunkBytes(Tail(layout))

Stream(f, layout) ==
    SIGNATURE \o IHDRChunk(f) \o ChunkBytes(layout)
    \o Chunk(CHUNK_TYPE.IEND.code, <<>>)

\* the offset in Stream(f, layout) of chunk k of layout (of IEND for
\* k = Len(layout) + 1)
RECURSIVE ChunkStart(_, _)
ChunkStart(layout, k) ==
    IF k = 1
    THEN Len(SIGNATURE) + Len(U32(0)) + Len(CHUNK_TYPE.IHDR.code)
         + Len(U32(0)) + Len(U32(0)) + Len(CHUNK_TYPE.IHDR.code) + 1 + Len(CRC)
    ELSE ChunkStart(layout, k - 1) + Len(layout[k - 1].payload)
         + Len(U32(0)) + Len(CRC) + Len(CRC)

\* buf with the bytes at the positions of bad replaced by a byte that
\* occurs nowhere in the signature
Corrupt(buf, bad) == [i \in 1..Len(buf) |-> IF i \in bad THEN 0 ELSE buf[i]]

DefaultFields == Fields(2, 2, 8, 0, 0, 0, 0)

DecodeFields ==
    { Fields(2, 2, 8, c, 0, 0, 0) : c \in {0, 3} }
    \cup { Fields(2, 2, 3, 0, 0, 0, 0), Fields(2, 2, 8, 5, 0, 0, 0) }

\* decode on a stream whose signature bytes at the positions bad are wrong,
\* on a well-formed stream, and on the first n bytes of one
DecodeCalls ==
    \/ \E l \in LayoutsUpTo(MaxSigChunks), bad \in SUBSET (1..Len(SIGNATURE)) :
         /\ op = "decode"
         /\ arg = [buffer |-> Corrupt(Stream(DefaultFields, l), bad),
                   layout |-> l, color |-> 0, intact |-> bad = {}]
    \/ \E l \in Layouts, f \in DecodeFields :
         /\ op = "decode"
         /\ arg = [buffer |-> Stream(f, l), layout |-> l, color |-> f.color,
                   intact |-> TRUE]
    \/ \E n \in {0, 7, 8, 28}, bad \in {{}, {1}} :
         /\ op = "decode"
         /\ arg = [buffer |-> SubSeq(Corrupt(Stream(DefaultFields, <<>>), bad),
                                     1, n),
                   layout |-> <<>>, color |-> 0, intact |-> FALSE]

IHDRFields ==
    { Fields(w, h, d, c, cm, 0, il) :
        w \in {1, 300}, h \in {1, 2}, d \in {1, 2, 3, 4, 8, 16},
        c \in {0, 1, 2, 3, 4, 6}, cm \in {0, 1}, il \in {0, 1, 2} }
    \cup { [DefaultFields EXCEPT !.declared = 12],
           [DefaultFields EXCEPT !.type = CHUNK_TYPE.IDAT.code] }

\* decodeIHDR on the 21 bytes decode hands to it (line 89)
IHDRCalls ==
    \E f \in IHDRFields :
        /\ op = "decodeIHDR"
        /\ arg = [chunk |-> View(Stream(f, <<>>), Len(SIGNATURE), 21),
                  fields |-> f]

\* a palette payload of n bytes, all different
Ramp(base, n) == [i \in 1..n |-> base + i - 1]

\* either copy of decodePLTE on the PLTE chunk of a stream
PLTECalls ==
    \E o \in {"decodePLTE", "decodePLTE_part000"},
       b \in {10, 100}, n \in 0..MaxPLTELen :
        /\ op = o
        /\ arg = [buffer |-> Stream(Fields(1, 1, 8, 3, 0, 0, 0),
                                    << [type |-> CHUNK_TYPE.PLTE.code,
                                        payload |-> Ramp(b, n)] >>),
                  x |-> ChunkStart(<<>>, 1), payload |-> Ramp(b, n)]

\* decodeIDAT on IDAT chunk k of a stream
IDATCalls ==
    \E l \in Layouts :
      \E k \in 1..Len(l) :
        /\ l[k].type = CHUNK_TYPE.IDAT.code
        /\ op = "decodeIDAT"
        /\ arg = [buffer |-> Stream(DefaultFields, l), layout |-> l,
                  k |-> k, x |-> ChunkStart(l, k)]

ChunkIndexCalls ==
    \E l \in Layouts, t \in {CHUNK_TYPE.PLTE, CHUNK_TYPE.IDAT} :
        /\ op = "getChunkIndex"
        /\ arg = [buffer |-> Stream(DefaultFields, l), layout |-> l,
                  chunkType |-> t]

\* The PNG filters, as an encoder applies them to the bytes of a row: the
\* inverse of the reconstruction the decoder is to perform.  a, b, c are the
\* unfiltered bytes to the left, above, and above left (0 outside the row).
PaethPredictor(a, b, c) ==
    LET p  == a + b - c
        pa == IF p >= a THEN p - a ELSE a - p
        pb == IF p >= b THEN p - b ELSE b - p
        pc_ == IF p >= c THEN p - c ELSE c - p
    IN  IF pa <= pb /\ pa <= pc_ THEN a
        ELSE IF pb <= pc_ THEN b
        ELSE c

Predictor(type, a, b, c) ==
    CASE type = 0 -> 0
      [] type = 1 -> a
      [] type = 2 -> b
      [] type = 3 -> (a + b) \div 2
      [] type = 4 -> PaethPredictor(a, b, c)

Filter(row, prev, type, bpp) ==
    [i \in 1..Len(row) |->
        LET a == IF i - bpp >= 1 THEN row[i - bpp] ELSE 0
            b == prev[i]
            c == IF i - bpp >= 1 THEN prev[i - bpp] ELSE 0
        IN  (row[i] - Predictor(type, a, b, c)) % 256]

ScanBytes == {0, 64, 128, 255}

Zeros(n) == [i \in 1..n |-> 0]

\* the header decodeIHDR is to return for an 8-bit image of color type k
Header(k, w, h) ==
    [kind |-> "header", width |-> w, height |-> h, depth |-> 8,
     colorType |-> COLOR_TYPE[k], compression |-> 0, filter |-> 0,
     interlace |-> 0]

\* decodeScanlines on the filtered bytes of a one-row image, and of a
\* two-row image whose first row has filter type None
ScanCalls ==
    \E k \in {1, 4}, n \in 1..MaxRowBytes, t \in 0..4 :
      /\ n % COLOR_TYPE[k].channels = 0
      /\ \/ \E r \in [1..n -> ScanBytes] :
               /\ op = "decodeScanlines"
               /\ arg = [raw |-> <<t>> \o Filter(r, Zeros(n), t,
                                               COLOR_TYPE[k].channels),
                         IHDR |-> Header(k, n \div COLOR_TYPE[k].channels, 1),
                         rows |-> <<r>>, types |-> <<t>>]
         \/ \E q \in [1..n -> ScanBytes], r \in [1..n -> ScanBytes] :
               /\ op = "decodeScanlines"
               /\ arg = [raw |-> <<0>> \o q \o <<t>>
                                 \o Filter(r, q, t, COLOR_TYPE[k].channels),
                         IHDR |-> Header(k, n \div COLOR_TYPE[k].channels, 2),
                         rows |-> <<q, r>>, types |-> <<0, t>>]

\* The seven Adam7 passes: where a pass starts in the image and how far
\* apart its pixels lie.
ADAM7 ==
    << [xOffset |-> 0, yOffset |-> 0, xStride |-> 8, yStride |-> 8],
       [xOffset |-> 4, yOffset |-> 0, xStride |-> 8, yStride |-> 8],
       [xOffset |-> 0, yOffset |-> 4, xStride |-> 4, yStride |-> 8],
       [xOffset |-> 2, yOffset |-> 0, xStride |-> 4, yStride |-> 4],
       [xOffset |-> 0, yOffset |-> 2, xStride |-> 2, yStride |-> 4],
       [xOffset |-> 1, yOffset |-> 0, xStride |-> 2, yStride |-> 2],
       [xOffset |-> 0, yOffset |-> 1, xStride |-> 1, yStride |-> 2] >>

\* ceil(a / b) for b > 0, and 0 when nothing is left (a <= 0)
CeilDiv(a, b) == IF a <= 0 THEN 0 ELSE (a + b - 1) \div b

PassWidth(w, p) == CeilDiv(w - ADAM7[p].xOffset, ADAM7[p].xStride)

PassHeight(h, p) == CeilDiv(h - ADAM7[p].yOffset, ADAM7[p].yStride)

\* the cells of the w x h image that pass p carries
PassCoords(w, h, p) ==
    { << ADAM7[p].xOffset + px * ADAM7[p].xStride,
         ADAM7[p].yOffset + py * ADAM7[p].yStride >> :
        px \in 0..(PassWidth(w, p) - 1), py \in 0..(PassHeight(h, p) - 1) }

\* the sample of cell (x, y) of the generated image: no two cells alike
Pixel(w, x, y) == y * w + x

Image(w, h) ==
    [r \in 1..h |-> [c \in 1..w |-> Pixel(w, c - 1, r - 1)]]

\* row py of pass p, as it lies in the decompressed stream: filter type
\* None and the samples of the pass's cells of that row
PassRow(w, p, py) ==
    <<0>> \o [i \in 1..PassWidth(w, p) |->
                Pixel(w, ADAM7[p].xOffset + (i - 1) * ADAM7[p].xStride,
                      ADAM7[p].yOffset + py * ADAM7[p].yStride)]

\* the decompressed stream of the interlaced image from row py of pass p on
RECURSIVE Adam7From(_, _, _, _)
Adam7From(w, h, p, py) ==
    IF p > Len(ADAM7) THEN <<>>
    ELSE IF PassWidth(w, p) = 0 \/ py >= PassHeight(h, p)
    THEN Adam7From(w, h, p + 1, 0)
    ELSE PassRow(w, p, py) \o Adam7From(w, h, p, py + 1)

\* decodeScanlines on the stream of an interlaced 8-bit Grayscale image
InterlacedCalls ==
    \E w \in 1..MaxDim, h \in 1..MaxDim :
        /\ op = "decodeScanlines"
        /\ arg = [raw |-> Adam7From(w, h, 1, 0),
                  IHDR |-> [Header(1, w, h) EXCEPT !.interlace = 1],
                  rows |-> Image(w, h), types |-> <<0>>]

ScanlineCalls ==
    \E n \in 1..MaxRowBytes, t \in 0..4 :
      \E r \in [1..n -> ScanBytes] :
        /\ op = "decodeScanline"
        /\ arg = [line |-> <<t>> \o r, length |-> n]

NumberCalls ==
    \E n \in 1..4 :
      \E b \in [1..n -> {0, 1, 127, 128, 255}] :
        /\ op = "number"
        /\ arg = [bytes |-> b]

----------------------------------------------------------------------------
(* The state machine                                                       *)

NoResult == [err |-> "", value |-> [kind |-> "none"]]

Init ==
    /\ \/ DecodeCalls
       \/ IHDRCalls
       \/ PLTECalls
       \/ IDATCalls
       \/ ChunkIndexCalls
       \/ ScanCalls
       \/ InterlacedCalls
       \/ ScanlineCalls
       \/ NumberCalls
    /\ pc = "call"
    /\ result = NoResult
    /\ steps = <<>>
    /\ inflateLog = <<>>

\* lines 96-97 and 106-107: the view of the chunk at x, its length field,
\* type code and declared number of payload bytes
chunkAt(buffer, x) == View(buffer, x, number(View(buffer, x, 4)) + 8)

Finish(r, st, log) ==
    /\ result' = [err |-> r.err, value |-> r.value]
    /\ steps' = st
    /\ inflateLog' = log
    /\ pc' = "done"
    /\ UNCHANGED <<op, arg>>

Decode ==
    /\ pc = "call" /\ op = "decode"
    /\ LET r == decode(arg.buffer) IN Finish(r, r.steps, r.inflated)

DecodeIHDR ==
    /\ pc = "call" /\ op = "decodeIHDR"
    /\ Finish(decodeIHDR(arg.chunk), <<"IHDR">>, <<>>)

DecodePLTE ==
    /\ pc = "call" /\ op = "decodePLTE"
    /\ Finish(decodePLTE(chunkAt(arg.buffer, arg.x)), <<"PLTE">>, <<>>)

DecodePLTE_part000 ==
    /\ pc = "call" /\ op = "decodePLTE_part000"
    /\ Finish(decodePLTE_part000(chunkAt(arg.buffer, arg.x)), <<"PLTE">>, <<>>)

DecodeIDAT ==
    /\ pc = "call" /\ op = "decodeIDAT"
    /\ LET r == decodeIDAT(chunkAt(arg.buffer, arg.x))
       IN  Finish(r, <<"IDAT">>, r.inflated)

GetChunkIndex ==
    /\ pc = "call" /\ op = "getChunkIndex"
    /\ Finish(getChunkIndex(arg.buffer, arg.chunkType), <<"getChunkIndex">>, <<>>)

DecodeScanlines ==
    /\ pc = "call" /\ op = "decodeScanlines"
    /\ Finish(decodeScanlines(arg.raw, arg.IHDR), <<"scanlines">>, <<>>)

DecodeScanline ==
    /\ pc = "call" /\ op = "decodeScanline"
    /\ Finish(decodeScanline(arg.line, arg.length), <<"scanline">>, <<>>)

Number ==
    /\ pc = "call" /\ op = "number"
    /\ Finish(Return([kind |-> "number", n |-> number(arg.bytes)]),
              <<"number">>, <<>>)

Next ==
    \/ Decode
    \/ DecodeIHDR
    \/ DecodePLTE
    \/ DecodePLTE_part000
    \/ DecodeIDAT
    \/ GetChunkIndex
    \/ DecodeScanlines
    \/ DecodeScanline
    \/ Number

Spec == Init /\ [][Next]_vars

----------------------------------------------------------------------------
(* What the claims speak of                                                *)

Done(o) == pc = "done" /\ op = o

\* one of the first eight bytes of the buffer is not the signature's
SignatureDiffers(buffer) ==
    \E i \in 1..Min(Len(SIGNATURE), Len(buffer)) : buffer[i] # SIGNATURE[i]

\* the bit depths PNG allows for a color type code
AllowedDepths(c) ==
    CASE c = 0 -> {1, 2, 4, 8, 16}
      [] c = 3 -> {1, 2, 4, 8}
      [] c \in {2, 4, 6} -> {8, 16}
      [] OTHER -> {}

KnownColor(c) == c \in {0, 2, 3, 4, 6}

WellFormedIHDR(f) == f.declared = 13 /\ f.type = CHUNK_TYPE.IHDR.code

\* the offsets of the chunks of the given type in Stream(f, layout), found
\* by walking the declared lengths
RECURSIVE StartsFrom(_, _, _)
StartsFrom(layout, code, k) ==
    IF k > Len(layout) THEN <<>>
    ELSE (IF layout[k].type = code THEN <<ChunkStart(layout, k)>> ELSE <<>>)
         \o StartsFrom(layout, code, k + 1)

TrueStarts(layout, code) == StartsFrom(layout, code, 1)

Positions(layout, code) == { k \in 1..Len(layout) : layout[k].type = code }

\* the payloads of the IDAT chunks, concatenated in file order
RECURSIVE IDATStream(_)
IDATStream(layout) ==
    IF layout = <<>> THEN <<>>
    ELSE (IF Head(layout).type = CHUNK_TYPE.IDAT.code
          THEN Head(layout).payload ELSE <<>>)
         \o IDATStream(Tail(layout))

PLTEAfterIDAT(layout) ==
    \E i \in Positions(layout, CHUNK_TYPE.IDAT.code),
       j \in Positions(layout, CHUNK_TYPE.PLTE.code) : i < j

\* the messages of png.js that report a misplaced, repeated or absent chunk
ChunkOrderErrors ==
    { "Found multiple PLTE chunks, which is not supported",
      "Malformed chunk layout, found chunk type without length byte",
      "No IDAT chunk found" }

MissingChunkErrors == { "No IDAT chunk found", "No PLTE chunk found" }

----------------------------------------------------------------------------
(* The claims                                                              *)

\* C1: when one of the first 8 bytes of the buffer differs from the PNG
\* signature, decode throws, and it has entered no stage after the
\* signature check: no IHDR decoding, no chunk lookup, no decompression.
C1_SignatureMismatchFailsFirst ==
    (Done("decode") /\ SignatureDiffers(arg.buffer))
        => /\ result.err # ""
           /\ steps = <<"signature">>
           /\ inflateLog = <<>>

\* C1 witness: decode has thrown on a complete stream (IHDR, an IDAT chunk,
\* IEND) whose only fault is its last signature byte.
C1_Witness ==
    /\ Done("decode")
    /\ Len(arg.layout) = 1
    /\ arg.layout[1].type = CHUNK_TYPE.IDAT.code
    /\ SignatureDiffers(arg.buffer)
    /\ \A i \in 1..7 : arg.buffer[i] = SIGNATURE[i]
    /\ result.err = DefaultMessage

\* C2: for an IHDR chunk of declared length 13 with a known color type and
\* a bit depth that color type allows, decodeIHDR throws nothing and returns
\* the header whose fields are the payload's, in order.
C2_ValidHeaderDecoded ==
    (/\ Done("decodeIHDR")
     /\ WellFormedIHDR(arg.fields)
     /\ KnownColor(arg.fields.color)
     /\ arg.fields.depth \in AllowedDepths(arg.fields.color))
        => /\ result.err = ""
           /\ result.value.kind = "header"
           /\ result.value.width = arg.fields.width
           /\ result.value.height = arg.fields.height
           /\ result.value.depth = arg.fields.depth
           /\ result.value.colorType.code = arg.fields.color
           /\ result.value.compression = arg.fields.compression
           /\ result.value.filter = arg.fields.filter
           /\ result.value.interlace = arg.fields.interlace

\* C3: the chunk positions reported for a type are exactly the chunks of
\* that type reached by advancing over declared lengths; a type code lying
\* in another chunk's payload adds no chunk and makes nothing fail.
C3_ChunksByDeclaredLength ==
    Done("getChunkIndex")
        => /\ result.err = ""
           /\ result.value.indices = TrueStarts(arg.layout, arg.chunkType.code)

\* C4: whenever the decompression backend is invoked for a stream with one
\* or more IDAT chunks, it is invoked on the concatenation of all the IDAT
\* payloads in file order, never on one chunk's payload alone.
C4_InflateOnConcatenation ==
    ((Done("decode") /\ arg.intact) \/ Done("decodeIDAT"))
        => \A i \in 1..Len(inflateLog) :
              inflateLog[i] = IDATStream(arg.layout)

\* C5: decode of a stream in which a PLTE chunk follows the first IDAT chunk
\* fails with a chunk-order error.
C5_PLTEAfterIDATRejected ==
    (Done("decode") /\ arg.intact /\ PLTEAfterIDAT(arg.layout))
        => result.err \in ChunkOrderErrors

\* C6: for an IHDR with a known color type and a bit depth outside that
\* color type's allowed set, decodeIHDR fails with the invalid-bit-depth
\* error and returns no header.
C6_InvalidDepthRejected ==
    (/\ Done("decodeIHDR")
     /\ WellFormedIHDR(arg.fields)
     /\ KnownColor(arg.fields.color)
     /\ arg.fields.depth \notin AllowedDepths(arg.fields.color))
        => /\ result.err = "Invalid bit depth"
           /\ result.value.kind = "none"

\* the palette a PLTE payload stands for: entry i is bytes 3i, 3i+1, 3i+2
PaletteOf(payload) ==
    [i \in 1..(Len(payload) \div 3) |->
        << payload[3 * i - 2], payload[3 * i - 1], payload[3 * i] >>]

PaletteDecoded(r, payload) ==
    IF Len(payload) % 3 # 0 THEN r.err # ""
    ELSE /\ r.err = ""
         /\ Len(r.value.entries) = Len(payload) \div 3
         /\ r.value.entries = PaletteOf(payload)

\* C7: decoding a PLTE chunk of declared length L fails when L is no
\* multiple of 3, and otherwise yields exactly L/3 entries, entry i being
\* payload bytes 3i, 3i+1, 3i+2; this of every decodePLTE of the repository.
C7_PaletteEntries ==
    (Done("decodePLTE") \/ Done("decodePLTE_part000"))
        => PaletteDecoded(result, arg.payload)

\* C7, of the decodePLTE of png.js alone (it holds there).
C7_PaletteEntries_png ==
    Done("decodePLTE") => PaletteDecoded(result, arg.payload)

\* C8: decode of a stream whose IHDR color type is Palette (3) and which has
\* no PLTE chunk fails with a missing-required-chunk error.
C8_PaletteWithoutPLTERejected ==
    (/\ Done("decode") /\ arg.intact
     /\ arg.color = 3
     /\ Positions(arg.layout, CHUNK_TYPE.PLTE.code) = {})
        => result.err \in MissingChunkErrors

RECURSIVE SampleCount(_)
SampleCount(rows) ==
    IF rows = <<>> THEN 0 ELSE Len(Head(rows)) + SampleCount(Tail(rows))

\* C9: for a valid non-interlaced 8-bit image whose rows all have filter
\* type None, the scanline decoder returns the rows in order, width * height
\* * channels samples in all; the 2x2 Grayscale image with raw samples
\* 0, 255, 128, 64 yields <<0, 255>>, <<128, 64>>.
C9_RasterRowMajor ==
    (/\ Done("decodeScanlines")
     /\ arg.IHDR.interlace = 0
     /\ \A i \in 1..Len(arg.types) : arg.types[i] = 0)
        => /\ result.err = ""
           /\ result.value.kind = "rows"
           /\ SampleCount(result.value.rows)
                = arg.IHDR.width * arg.IHDR.height
                  * arg.IHDR.colorType.channels
           /\ result.value.rows = arg.rows

\* C10: for every filter type 0..4, bpp, previous row and row, reversing
\* the filter on the filtered row gives back the row: the last row the
\* scanline decoder returns is the row that was filtered.
C10_UnfilterInvertsFilter ==
    (Done("decodeScanlines") /\ arg.IHDR.interlace = 0)
        => /\ result.err = ""
           /\ result.value.kind = "rows"
           /\ result.value.rows[Len(arg.rows)] = arg.rows[Len(arg.rows)]

Grid(w, h) == (0..(w - 1)) \X (0..(h - 1))

\* the cells of the raster a call has written
Written(r) ==
    IF r.err = "" /\ r.value.kind = "rows"
    THEN { c \in Grid(arg.IHDR.width, arg.IHDR.height) :
             /\ c[2] + 1 <= Len(r.value.rows)
             /\ c[1] + 1 <= Len(r.value.rows[c[2] + 1]) }
    ELSE {}

\* C11: for an Adam7 image of any width and height >= 1, the cells written
\* over the seven passes are the whole width x height grid, each cell once,
\* holding the sample its pass carried for it.
C11_Adam7CoversGrid ==
    (Done("decodeScanlines") /\ arg.IHDR.interlace = 1)
        => /\ Written(result) = Grid(arg.IHDR.width, arg.IHDR.height)
           /\ result.value.rows = arg.rows

\* C11, of the pass geometry alone: the seven passes' cells are pairwise
\* disjoint and together the whole grid (it holds of ADAM7; png.js holds
\* no code that uses it).
C11_PassGeometry ==
    (Done("decodeScanlines") /\ arg.IHDR.interlace = 1)
        => LET w == arg.IHDR.width
               h == arg.IHDR.height
           IN  /\ UNION { PassCoords(w, h, p) : p \in 1..Len(ADAM7) }
                     = Grid(w, h)
               /\ \A p \in 1..Len(ADAM7), q \in 1..Len(ADAM7) :
                     p # q => PassCoords(w, h, p) \cap PassCoords(w, h, q) = {}

\* the errors that would report a compression or interlace method the
\* decoder does not support
UnsupportedMethodErrors ==
    { "Unsupported compression method", "Unsupported interlace method" }

\* C12: for an IHDR (otherwise valid) whose compression method is not 0 or
\* whose interlace method is not 0 or 1, decodeIHDR fails with an
\* unsupported-compression or unsupported-interlace error and returns no
\* header.
C12_UnsupportedMethodRejected ==
    (/\ Done("decodeIHDR")
     /\ WellFormedIHDR(arg.fields)
     /\ KnownColor(arg.fields.color)
     /\ arg.fields.depth \in AllowedDepths(arg.fields.color)
     /\ (arg.fields.compression # 0 \/ arg.fields.interlace \notin {0, 1}))
        => /\ result.err \in UnsupportedMethodErrors
           /\ result.value.kind = "none"

\* the unsigned big-endian value of at most three bytes
RECURSIVE BigEndian(_)
BigEndian(bytes) ==
    IF bytes = <<>> THEN 0
    ELSE Head(bytes) * (256 ^ (Len(bytes) - 1)) + BigEndian(Tail(bytes))

\* n is the unsigned big-endian value of the 1 to 4 bytes: it is not
\* negative, its bits from 2^24 up are the first of four bytes, and the rest
\* is the value of the last three (or fewer) bytes
IsUnsignedValue(n, bytes) ==
    /\ n >= 0
    /\ n \div (256 ^ 3)
         = (IF Len(bytes) = 4 THEN bytes[1] ELSE 0)
    /\ n % (256 ^ 3)
         = BigEndian(IF Len(bytes) = 4 THEN Tail(bytes) ELSE bytes)

\* C13: for 1 to 4 bytes, number returns their unsigned big-endian value,
\* never a negative number, also when the first of 4 bytes is >= 0x80.
C13_NumberUnsigned ==
    Done("number") => IsUnsignedValue(result.value.n, arg.bytes)

\* C13, short of the sign bit: for fewer than 4 bytes, and for 4 bytes whose
\* first is below 0x80, number does return the unsigned value (it holds).
C13_NumberBelowSignBit ==
    (Done("number") /\ (Len(arg.bytes) < 4 \/ arg.bytes[1] < 128))
        => IsUnsignedValue(result.value.n, arg.bytes)

====
